---- MODULE Spec2Model ----
(***************************************************************************)
(* Generic-argument application of mypy (mypy/applytype.py):               *)
(* get_target_type resolves the type substituted for one type variable,    *)
(* apply_generic_arguments builds the map from type variable id to target  *)
(* type and rewrites the callable with it.                                 *)
(*                                                                         *)
(* Types are records with a "tag" field naming the class of mypy.types     *)
(* they are an instance of.  Python's None is the record NoneV.            *)
(***************************************************************************)
EXTENDS Integers, Sequences, FiniteSets, TLC

\* Largest number of type variables a callable declares.
MaxVars == 2

\* Largest number of values in the value restriction of a type variable.
MaxValues == 3

(***************************************************************************)
(* mypy.types                                                              *)
(***************************************************************************)
NoneV == [tag |-> "None"]

AnyType == [tag |-> "AnyType"]

PartialType == [tag |-> "PartialType"]

Instance(name) == [tag |-> "Instance", name |-> name]

TypeVarType(id, name, values, upper_bound) ==
    [tag |-> "TypeVarType", id |-> id, name |-> name, values |-> values,
     upper_bound |-> upper_bound]

ParamSpecType(id, name, flavor) ==
    [tag |-> "ParamSpecType", id |-> id, name |-> name, flavor |-> flavor]

TypeVarTupleType(id, name) == [tag |-> "TypeVarTupleType", id |-> id, name |-> name]

TupleType(items) == [tag |-> "TupleType", items |-> items]

UnpackType(type) == [tag |-> "UnpackType", type |-> type]

Parameters(arg_types, arg_kinds, arg_names) ==
    [tag |-> "Parameters", arg_types |-> arg_types, arg_kinds |-> arg_kinds,
     arg_names |-> arg_names, variables |-> <<>>]

CallableType(variables, arg_types, arg_kinds, arg_names, ret_type, type_guard) ==
    [tag |-> "CallableType", variables |-> variables, arg_types |-> arg_types,
     arg_kinds |-> arg_kinds, arg_names |-> arg_names, ret_type |-> ret_type,
     type_guard |-> type_guard]

\* isinstance(t, cls)
isinstance(t, cls) == t.tag = cls

\* get_proper_type: no type alias is modelled, a type is its own proper type.
get_proper_type(t) == t

(***************************************************************************)
(* mypy.subtypes: the subtype oracle over the modelled types.              *)
(* Nominal facts: bool <: int, int promotes to float, AB derives from the  *)
(* unrelated classes A and B, everything derives from object.              *)
(***************************************************************************)
ProperSubclass ==
    {<<"bool", "int">>, <<"bool", "float">>, <<"int", "float">>,
     <<"AB", "A">>, <<"AB", "B">>}

is_subclass(l, r) == l = r \/ r = "object" \/ <<l, r>> \in ProperSubclass

RECURSIVE is_subtype(_, _)
is_subtype(left, right) ==
    IF isinstance(right, "AnyType") \/ isinstance(left, "AnyType") THEN TRUE
    ELSE IF isinstance(left, "TypeVarType") THEN
        IF isinstance(right, "TypeVarType") /\ left.id = right.id THEN TRUE
        ELSE IF left.values # <<>>
                /\ \A k \in 1..Len(left.values) : is_subtype(left.values[k], right)
             THEN TRUE
        ELSE is_subtype(left.upper_bound, right)
    ELSE IF isinstance(left, "Instance") THEN
        isinstance(right, "Instance") /\ is_subclass(left.name, right.name)
    ELSE IF isinstance(left, "TupleType") /\ isinstance(right, "TupleType") THEN
        /\ Len(left.items) = Len(right.items)
        /\ \A k \in 1..Len(left.items) : is_subtype(left.items[k], right.items[k])
    ELSE isinstance(right, "Instance") /\ right.name = "object"

is_same_type(a, b) == a = b

(***************************************************************************)
(* get_target_type                                                         *)
(***************************************************************************)
\* The values the proposed type is a subtype of, in declaration order.
matching_values(values, type) == SelectSeq(values, LAMBDA value : is_subtype(type, value))

\* "If there are more than one matching value, we select the narrowest":
\* the loop over matching[1:], best being the value selected so far.
\* narrowest with the subtype test the wrong way round.
RECURSIVE widest(_, _)
widest(best, rest) ==
    IF rest = <<>> THEN best
    ELSE widest(IF is_subtype(best, Head(rest)) THEN Head(rest) ELSE best, Tail(rest))

RECURSIVE narrowest(_, _)
narrowest(best, rest) ==
    IF rest = <<>> THEN best
    ELSE narrowest(IF is_subtype(Head(rest), best) THEN Head(rest) ELSE best,
                   Tail(rest))

\* values_subsumed with is_subtype for is_same_type.
values_subsumed_by_subtype(values, p_type) ==
    \A k1 \in 1..Len(p_type.values) :
        \E k \in 1..Len(values) : is_subtype(p_type.values[k1], values[k])

\* "Allow substituting T1 for T if every allowed value of T1 is also a legal
\* value of T."
values_subsumed(values, p_type) ==
    \A k1 \in 1..Len(p_type.values) :
        \E k \in 1..Len(values) : is_same_type(values[k], p_type.values[k1])

\* One call of report_incompatible_typevar_value.
Report(callable, type, name, context) ==
    [callable |-> callable, type |-> type, name |-> name, context |-> context]

\* The outcome of a call: ret is the returned type (NoneV for None), reports
\* the calls of report_incompatible_typevar_value it made.
Returns(type, reports) == [ret |-> type, reports |-> reports]

\* unsatisfied without the call of report_incompatible_typevar_value.
unsatisfied_unreported(type, report, skip_unsatisfied) ==
    IF skip_unsatisfied THEN Returns(NoneV, <<>>) ELSE Returns(type, <<>>)

\* unsatisfied without the test of skip_unsatisfied.
unsatisfied_never_skipped(type, report, skip_unsatisfied) == Returns(type, report)

\* The type does not satisfy the values or the bound: None under
\* skip_unsatisfied, else the error is reported and the type returned as is.
unsatisfied(type, report, skip_unsatisfied) ==
    IF skip_unsatisfied THEN Returns(NoneV, <<>>) ELSE Returns(type, report)

get_target_type(tvar, type, callable, context, skip_unsatisfied) ==
    IF isinstance(tvar, "ParamSpecType") THEN Returns(type, <<>>)
    ELSE IF isinstance(tvar, "TypeVarTupleType") THEN Returns(type, <<>>)
    ELSE
      LET values == tvar.values
          p_type == get_proper_type(type)
          matching == matching_values(values, type)
          report == <<Report(callable, type, tvar.name, context)>>
      IN  IF values # <<>> THEN
              IF isinstance(p_type, "AnyType") THEN Returns(type, <<>>)
              ELSE IF /\ isinstance(p_type, "TypeVarType")
                      /\ p_type.values # <<>>
                      /\ values_subsumed(values, p_type)
                   THEN Returns(type, <<>>)
              ELSE IF matching # <<>> THEN
                   Returns(narrowest(matching[1], Tail(matching)), <<>>)
              ELSE unsatisfied(type, report, skip_unsatisfied)
          ELSE
              IF ~is_subtype(type, tvar.upper_bound)
              THEN unsatisfied(type, report, skip_unsatisfied)
              ELSE Returns(type, <<>>)

(***************************************************************************)
(* mypy.expandtype, mypy.typevartuples and the methods of CallableType     *)
(* that apply_generic_arguments calls.                                     *)
(***************************************************************************)
\* A Python list of types, as opposed to a single type.
List(items) == [tag |-> "list", items |-> items]

\* An exception raised by a failed assert or an unimplemented case.
Raise(exception, message) == [tag |-> exception, message |-> message]

IsException(v) == v.tag \in {"AssertionError", "NotImplementedError"}

\* dict.get(key, default)
get(m, key, default) == IF key \in DOMAIN m THEN m[key] ELSE default

\* expand_unpack_with_variables(t, variables): the types an Unpack[Ts] stands
\* for under the map.
expand_unpack_with_variables(t, variables) ==
    IF isinstance(t.type, "TypeVarTupleType") THEN
        LET repl == get_proper_type(get(variables, t.type.id, t))
        IN  CASE isinstance(repl, "TupleType") -> List(repl.items)
              [] isinstance(repl, "AnyType") -> repl
              [] isinstance(repl, "TypeVarTupleType") -> List(<<UnpackType(repl)>>)
              [] isinstance(repl, "UnpackType") -> List(<<repl>>)
              [] OTHER -> Raise("NotImplementedError", "Invalid type replacement to expand")
    ELSE Raise("NotImplementedError", "Invalid type to expand")

RECURSIVE expand_type(_, _)
RECURSIVE expand_items(_, _)
\* The items of a tuple expanded one by one, an Unpack item replaced by the
\* list it stands for.  Every Unpack item of typs expands to a list here.
expand_items(typs, variables) ==
    IF typs = <<>> THEN <<>>
    ELSE LET item == Head(typs)
         IN  (IF isinstance(item, "UnpackType")
              THEN expand_unpack_with_variables(item, variables).items
              ELSE <<expand_type(item, variables)>>)
             \o expand_items(Tail(typs), variables)

\* expand_types_with_unpack: a list of types, or the single non-list type a
\* lone Unpack item expands to.
expand_types_with_unpack(typs, variables) ==
    LET nonlist == {k \in 1..Len(typs) :
                      /\ isinstance(typs[k], "UnpackType")
                      /\ ~isinstance(expand_unpack_with_variables(typs[k], variables), "list")}
    IN  IF nonlist = {} THEN List(expand_items(typs, variables))
        ELSE IF Len(typs) = 1 THEN expand_unpack_with_variables(typs[1], variables)
        ELSE Raise("AssertionError", "Invalid unpack of variable length tuple")

\* expand_type(typ, env): substitute the type variables of typ by the map.
expand_type(typ, variables) ==
    CASE isinstance(typ, "TypeVarType") -> get(variables, typ.id, typ)
      [] isinstance(typ, "ParamSpecType") ->
            LET repl == get(variables, typ.id, typ)
            IN  IF isinstance(repl, "ParamSpecType")
                THEN [repl EXCEPT !.flavor = typ.flavor]
                ELSE repl
      [] isinstance(typ, "TupleType") ->
            LET items == expand_types_with_unpack(typ.items, variables)
            IN  IF isinstance(items, "list") THEN TupleType(items.items) ELSE items
      [] OTHER -> typ

\* [expand_type(at, id_to_type, allow_erased_callables) for at in types];
\* allow_erased_callables only matters for erased callable types, which are
\* not among the modelled types.
expand_types(types, variables) ==
    [k \in 1..Len(types) |-> expand_type(types[k], variables)]

\* The positions of the ARG_STAR arguments (at most one).
star_positions(callable) ==
    {k \in 1..Len(callable.arg_kinds) : callable.arg_kinds[k] = "ARG_STAR"}

\* callable.arg_kinds.index(ARG_STAR), counting from 1.
star_index_of(callable) ==
    CHOOSE k \in star_positions(callable) : \A j \in star_positions(callable) : k <= j

\* CallableType.var_arg(): the *arg argument, or None.
var_arg(callable) ==
    IF star_positions(callable) = {} THEN NoneV
    ELSE [tag |-> "FormalArgument", pos |-> star_index_of(callable),
          typ |-> callable.arg_types[star_index_of(callable)]]

\* CallableType.param_spec(): the ParamSpec P of a callable whose two final
\* parameters are *args: P.args, **kwargs: P.kwargs, or None.
param_spec(callable) ==
    LET n == Len(callable.arg_types)
    IN  IF n < 2 THEN NoneV
        ELSE IF callable.arg_kinds[n - 1] # "ARG_STAR" \/ callable.arg_kinds[n] # "ARG_STAR2"
        THEN NoneV
        ELSE IF ~isinstance(callable.arg_types[n - 1], "ParamSpecType") THEN NoneV
        ELSE [callable.arg_types[n - 1] EXCEPT !.flavor = "bare"]

\* CallableType.expand_param_spec(c): the two final parameters replaced by
\* the parameters of c.
expand_param_spec(callable, c) ==
    LET n == Len(callable.arg_types)
    IN  [callable EXCEPT
            !.arg_types = SubSeq(callable.arg_types, 1, n - 2) \o c.arg_types,
            !.arg_kinds = SubSeq(callable.arg_kinds, 1, n - 2) \o c.arg_kinds,
            !.arg_names = SubSeq(callable.arg_names, 1, n - 2) \o c.arg_names,
            !.variables = c.variables \o callable.variables]

\* find_unpack_in_list(items): the position of the Unpack item counting from
\* 1, or 0 for None.
find_unpack_in_list(items) ==
    LET unpacks == {k \in 1..Len(items) : isinstance(items[k], "UnpackType")}
    IN  IF unpacks = {} THEN 0 ELSE CHOOSE k \in unpacks : \A j \in unpacks : k <= j

\* replace_starargs(callable, types): the star argument replaced by one
\* positional argument per type.
replace_starargs(callable, types) ==
    LET star_index == star_index_of(callable)
        n == Len(callable.arg_types)
    IN  [callable EXCEPT
            !.arg_kinds = SubSeq(callable.arg_kinds, 1, star_index - 1)
                            \o [k \in 1..Len(types) |-> "ARG_POS"]
                            \o SubSeq(callable.arg_kinds, star_index + 1, n),
            !.arg_names = SubSeq(callable.arg_names, 1, star_index - 1)
                            \o [k \in 1..Len(types) |-> "None"]
                            \o SubSeq(callable.arg_names, star_index + 1, n),
            !.arg_types = SubSeq(callable.arg_types, 1, star_index - 1)
                            \o types
                            \o SubSeq(callable.arg_types, star_index + 1, n)]

(***************************************************************************)
(* The calls of apply_generic_arguments that are explored.                 *)
(***************************************************************************)
object == Instance("object")

Name(id) == "T" \o ToString(id)

\* The classes the value restrictions are drawn from.
ValueNames == {"int", "float", "A", "B"}

\* Value restrictions: up to MaxValues distinct classes, in every order.
ValueLists ==
    UNION {{[k \in 1..n |-> Instance(f[k])] :
              f \in {g \in [1..n -> ValueNames] : \A a, b \in 1..n : g[a] = g[b] => a = b}} :
           n \in 1..MaxValues}

\* The type variables with a value restriction or an upper bound.
PlainVariables(id) ==
    {TypeVarType(id, Name(id), values, object) : values \in ValueLists}
    \cup {TypeVarType(id, Name(id), <<>>, bound) : bound \in {object, Instance("int")}}

\* Type variables of the caller that a proposed type can be.
CallerIntFloat == TypeVarType(91, "S1", <<Instance("int"), Instance("float")>>, object)

CallerBoolInt == TypeVarType(92, "S2", <<Instance("bool"), Instance("int")>>, object)

CallerAB == TypeVarType(93, "S3", <<Instance("A"), Instance("B")>>, object)

CallerBoundInt == TypeVarType(94, "S4", <<>>, Instance("int"))

CallerTuple == TypeVarTupleType(95, "Us")

\* The proposed types for a plain type variable (None: not applied).
PlainProposals ==
    {NoneV, PartialType, AnyType, Instance("bool"), Instance("int"), Instance("str"),
     Instance("AB"), CallerIntFloat, CallerBoolInt, CallerAB, CallerBoundInt}

\* def [T] (x: T) -> T
Identity(tvar) == CallableType(<<tvar>>, <<tvar>>, <<"ARG_POS">>, <<"x">>, tvar, NoneV)

\* The kinds of type variable of a callable with several of them.
VariableKinds == {"values", "bound", "paramspec", "typevartuple"}

Variable(kind, id) ==
    CASE kind = "values" ->
            TypeVarType(id, Name(id), <<Instance("A"), Instance("B")>>, object)
      [] kind = "bound" -> TypeVarType(id, Name(id), <<>>, Instance("int"))
      [] kind = "paramspec" -> ParamSpecType(id, Name(id), "bare")
      [] kind = "typevartuple" -> TypeVarTupleType(id, Name(id))

\* The variables of a callable: ids are unique, at most one ParamSpec and one
\* TypeVarTuple.
VariableLists ==
    UNION {{[k \in 1..n |-> Variable(f[k], k)] :
              f \in {g \in [1..n -> VariableKinds] :
                       \A a, b \in 1..n :
                          (g[a] = g[b] /\ g[a] \in {"paramspec", "typevartuple"}) => a = b}} :
           n \in 0..MaxVars}

OfClass(vs, cls) == SelectSeq(vs, LAMBDA v : isinstance(v, cls))

\* The first plain type variable of vs, or default.
FirstPlain(vs, default) ==
    IF OfClass(vs, "TypeVarType") = <<>> THEN default ELSE OfClass(vs, "TypeVarType")[1]

\* The positional parameters: one per plain type variable, then an int.
Prefix(vs) == OfClass(vs, "TypeVarType") \o <<Instance("int")>>

PrefixKinds(vs) == [k \in 1..Len(Prefix(vs)) |-> "ARG_POS"]

PrefixNames(vs) == [k \in 1..Len(Prefix(vs)) |-> "p" \o ToString(k)]

\* The shapes of the parameter list after the prefix.
Shapes(vs) ==
    {"plain", "star", "unpack_tuple", "unpack_other"}
    \cup (IF OfClass(vs, "TypeVarTupleType") # <<>>
          THEN {"unpack_tvt", "unpack_tuple_tvt"} ELSE {})
    \cup (IF OfClass(vs, "ParamSpecType") # <<>> THEN {"pspec"} ELSE {})

Signature(vs, shape) ==
    LET T == FirstPlain(vs, Instance("str"))
        Ts == OfClass(vs, "TypeVarTupleType")[1]
        P == OfClass(vs, "ParamSpecType")[1]
        with(types, kinds, names, guard) ==
            CallableType(vs, Prefix(vs) \o types, PrefixKinds(vs) \o kinds,
                         PrefixNames(vs) \o names, T, guard)
    IN  CASE shape = "plain" -> with(<<>>, <<>>, <<>>, NoneV)
          \* (..., *args: T, kw: str) -> TypeGuard[T]
          [] shape = "star" ->
                with(<<T, Instance("str")>>, <<"ARG_STAR", "ARG_NAMED">>, <<"args", "kw">>, T)
          \* (..., *args: *tuple[T, str], kw: T)
          [] shape = "unpack_tuple" ->
                with(<<UnpackType(TupleType(<<T, Instance("str")>>)), T>>,
                     <<"ARG_STAR", "ARG_NAMED">>, <<"args", "kw">>, NoneV)
          [] shape = "unpack_other" ->
                with(<<UnpackType(Instance("int"))>>, <<"ARG_STAR">>, <<"args">>, NoneV)
          \* (..., *args: *Ts, kw: T)
          [] shape = "unpack_tvt" ->
                with(<<UnpackType(Ts), T>>, <<"ARG_STAR", "ARG_NAMED">>, <<"args", "kw">>,
                     NoneV)
          \* (..., *args: *tuple[*Ts])
          [] shape = "unpack_tuple_tvt" ->
                with(<<UnpackType(TupleType(<<UnpackType(Ts)>>))>>, <<"ARG_STAR">>,
                     <<"args">>, NoneV)
          \* (..., *args: P.args, **kwargs: P.kwargs)
          [] shape = "pspec" ->
                with(<<[P EXCEPT !.flavor = "args"], [P EXCEPT !.flavor = "kwargs"]>>,
                     <<"ARG_STAR", "ARG_STAR2">>, <<"args", "kwargs">>, NoneV)

\* The proposed types for the variable v of a callable with variables vs.
Proposals(vs, v) ==
    LET T == FirstPlain(vs, Instance("str"))
    IN  CASE isinstance(v, "TypeVarType") ->
                {NoneV, PartialType, Instance("bool"), Instance("AB")}
          [] isinstance(v, "ParamSpecType") ->
                {NoneV, AnyType,
                 \* [T, *tuple[T, str]]
                 Parameters(<<T, UnpackType(TupleType(<<T, Instance("str")>>))>>,
                            <<"ARG_POS", "ARG_STAR">>, <<"a", "rest">>),
                 \* def (a: int, b: T = ...) -> None
                 CallableType(<<>>, <<Instance("int"), T>>, <<"ARG_POS", "ARG_OPT">>,
                              <<"a", "b">>, Instance("NoneType"), NoneV)}
          [] isinstance(v, "TypeVarTupleType") ->
                {NoneV, AnyType, TupleType(<<>>),
                 TupleType(<<Instance("int"), Instance("str")>>),
                 TupleType(<<Instance("int"), UnpackType(CallerTuple)>>)}

\* The lists of proposed types, one per variable of vs.
ProposalLists(vs) ==
    {types \in [1..Len(vs) -> UNION {Proposals(vs, vs[k]) : k \in 1..Len(vs)}] :
        \A k \in 1..Len(vs) : types[k] \in Proposals(vs, vs[k])}

\* The lists of proposed types that are not as long as vs.
WrongLengthLists(vs) ==
    UNION {[1..m -> {NoneV, PartialType, Instance("bool")}] :
             m \in (0..MaxVars + 1) \ {Len(vs)}}

(***************************************************************************)
(* apply_generic_arguments as a state machine.                             *)
(***************************************************************************)
VARIABLES
    signature,          \* the callable passed in
    orig_types,         \* the proposed types, None for "not applied"
    skip_unsatisfied,
    callable,           \* the local variable callable, rebound as the call goes
    id_to_type,         \* the map from type variable id to target type
    index,              \* the position of the loop over zip(tvars, orig_types)
    pc,                 \* start, loop, args, finish, done or raised
    exception,          \* the exception raised, NoneV if none
    reports,            \* the calls of report_incompatible_typevar_value so far
    resolved,           \* the calls of get_target_type so far, with their results
    result              \* the callable returned, NoneV before the return

vars == <<signature, orig_types, skip_unsatisfied, callable, id_to_type, index, pc,
          exception, reports, resolved, result>>

\* tvars = callable.variables
tvars == signature.variables

context == "context"

EmptyMap == [id \in {} |-> NoneV]

\* The local variables and the records of the calls made, at the entry of
\* apply_generic_arguments.
AtEntry ==
    /\ callable = signature
    /\ id_to_type = EmptyMap
    /\ index = 1
    /\ pc = "start"
    /\ exception = NoneV
    /\ reports = <<>>
    /\ resolved = <<>>
    /\ result = NoneV

\* One plain type variable, every restriction and every proposed type.
InitResolver ==
    /\ \E tvar \in PlainVariables(1), type \in PlainProposals :
          signature = Identity(tvar) /\ orig_types = <<type>>
    /\ skip_unsatisfied \in BOOLEAN
    /\ AtEntry

\* Callables with up to MaxVars variables and one proposed type per variable.
InitApply ==
    /\ \E vs \in VariableLists :
          /\ \E shape \in Shapes(vs) : signature = Signature(vs, shape)
          /\ orig_types \in ProposalLists(vs)
    /\ skip_unsatisfied \in BOOLEAN
    /\ AtEntry

\* Calls whose list of types is not as long as the list of variables.
InitArity ==
    /\ \E vs \in VariableLists :
          /\ signature = Signature(vs, "plain")
          /\ orig_types \in WrongLengthLists(vs)
    /\ skip_unsatisfied \in BOOLEAN
    /\ AtEntry

Init == InitResolver \/ InitApply \/ InitArity

\* same_length as zip() sees the two lists: the longer one is cut.
at_least_as_long(vs, types) == Len(vs) <= Len(types)

\* len(tvars) == len(orig_types)
same_length(vs, types) == Len(vs) = Len(types)

\* tvars = callable.variables; assert len(tvars) == len(orig_types)
CheckArity ==
    /\ pc = "start"
    /\ IF same_length(tvars, orig_types)
       THEN pc' = "loop" /\ UNCHANGED exception
       ELSE /\ pc' = "raised"
            /\ exception' = Raise("AssertionError", "len(tvars) == len(orig_types)")
    /\ UNCHANGED <<signature, orig_types, skip_unsatisfied, callable, id_to_type, index,
                   reports, resolved, result>>

\* is_partial without the test.
is_partial_unchecked(type) == FALSE

\* isinstance(type, PartialType)
is_partial(type) == isinstance(type, "PartialType")

\* One iteration of: for tvar, type in zip(tvars, orig_types)
LoopStep ==
    /\ pc = "loop"
    /\ index <= Len(tvars)
    /\ LET tvar == tvars[index]
           type == orig_types[index]
           call == get_target_type(tvar, type, callable, context, skip_unsatisfied)
           target_type == call.ret
       IN  IF is_partial(type) THEN
               /\ pc' = "raised"
               /\ exception' = Raise("AssertionError",
                                     "Internal error: must never apply partial type")
               /\ UNCHANGED <<index, id_to_type, reports, resolved>>
           ELSE IF type = NoneV THEN
               /\ index' = index + 1
               /\ UNCHANGED <<pc, exception, id_to_type, reports, resolved>>
           ELSE
               /\ index' = index + 1
               /\ reports' = reports \o call.reports
               /\ resolved' = Append(resolved, [index |-> index, tvar |-> tvar,
                                                type |-> type, ret |-> target_type])
               /\ id_to_type' = IF target_type # NoneV
                                THEN (tvar.id :> target_type) @@ id_to_type
                                ELSE id_to_type
               /\ UNCHANGED <<pc, exception>>
    /\ UNCHANGED <<signature, orig_types, skip_unsatisfied, callable, result>>

\* with_param_spec_expanded without the expansion.
without_param_spec_expanded(c, m) == c

\* callable after the ParamSpec of its two final parameters is replaced by the
\* parameters the map gives for it.
with_param_spec_expanded(c, m) ==
    LET ps == param_spec(c)
        nt == IF ps # NoneV /\ ps.id \in DOMAIN m THEN get_proper_type(m[ps.id]) ELSE NoneV
    IN  IF nt # NoneV /\ (isinstance(nt, "CallableType") \/ isinstance(nt, "Parameters"))
        THEN expand_param_spec(c, nt)
        ELSE c

ExpandParamSpec ==
    /\ pc = "loop"
    /\ index > Len(tvars)
    /\ callable' = with_param_spec_expanded(callable, id_to_type)
    /\ pc' = "args"
    /\ UNCHANGED <<signature, orig_types, skip_unsatisfied, id_to_type, index, exception,
                   reports, resolved, result>>

\* expand_around_star with the types after the star argument left as they are.
expand_before_star(c, m) ==
    LET star_index == star_index_of(c)
    IN  [c EXCEPT !.arg_types =
            expand_types(SubSeq(c.arg_types, 1, star_index - 1), m)
            \o SubSeq(c.arg_types, star_index, Len(c.arg_types))]

\* The map applied to the argument types before and after the star argument,
\* whose type is kept.
expand_around_star(c, m) ==
    LET star_index == star_index_of(c)
    IN  [c EXCEPT !.arg_types =
            expand_types(SubSeq(c.arg_types, 1, star_index - 1), m)
            \o <<c.arg_types[star_index]>>
            \o expand_types(SubSeq(c.arg_types, star_index + 1, Len(c.arg_types)), m)]

\* The branch taken when the *arg argument has an Unpack type: the callable
\* it produces, or the exception it raises.
apply_to_unpacked_star(c, m) ==
    LET star_index == star_index_of(c)
        n == Len(c.arg_types)
        c1 == expand_around_star(c, m)
        unpacked_type == get_proper_type(var_arg(c).typ.type)
        expanded_tuple == expand_type(unpacked_type, m)
        expanded_tvt == expand_unpack_with_variables(var_arg(c).typ, m)
    IN  IF isinstance(unpacked_type, "TupleType") THEN
            IF isinstance(expanded_tuple, "TupleType") THEN
                IF find_unpack_in_list(expanded_tuple.items) # 0
                THEN [c1 EXCEPT !.arg_types =
                         SubSeq(c1.arg_types, 1, star_index - 1)
                         \o <<expanded_tuple>>
                         \o SubSeq(c1.arg_types, star_index + 1, n)]
                ELSE replace_starargs(c1, expanded_tuple.items)
            ELSE Raise("AssertionError", "mypy bug: unimplemented case")
        ELSE IF isinstance(unpacked_type, "TypeVarTupleType") THEN
            IF ~isinstance(expanded_tvt, "list")
            THEN (IF IsException(expanded_tvt) THEN expanded_tvt
                  ELSE Raise("AssertionError", "isinstance(expanded_tvt, list)"))
            ELSE IF \E k \in 1..Len(expanded_tvt.items) :
                       isinstance(expanded_tvt.items[k], "UnpackType")
            THEN Raise("AssertionError", "not isinstance(t, UnpackType)")
            ELSE replace_starargs(c1, expanded_tvt.items)
        ELSE Raise("AssertionError", "mypy bug: unhandled case applying unpack")

\* "Apply arguments to argument types."
apply_to_arg_types(c, m) ==
    IF var_arg(c) # NoneV /\ isinstance(var_arg(c).typ, "UnpackType")
    THEN apply_to_unpacked_star(c, m)
    ELSE [c EXCEPT !.arg_types = expand_types(c.arg_types, m)]

ApplyArgTypes ==
    /\ pc = "args"
    /\ LET applied == apply_to_arg_types(callable, id_to_type)
       IN  IF IsException(applied)
           THEN pc' = "raised" /\ exception' = applied /\ UNCHANGED callable
           ELSE pc' = "finish" /\ callable' = applied /\ UNCHANGED exception
    /\ UNCHANGED <<signature, orig_types, skip_unsatisfied, id_to_type, index, reports,
                   resolved, result>>

\* remaining_tvars keeping every type variable.
all_tvars(vs, m) == vs

\* "The callable may retain some type vars if only some were applied."
remaining_tvars(vs, m) == SelectSeq(vs, LAMBDA tv : tv.id \notin DOMAIN m)

\* returned_callable with the TypeGuard lost.
returned_callable_guard_lost(c, vs, m) ==
    [c EXCEPT !.ret_type = expand_type(c.ret_type, m),
              !.variables = remaining_tvars(vs, m),
              !.type_guard = NoneV]

\* "Apply arguments to TypeGuard if any", and the callable returned.
returned_callable(c, vs, m) ==
    LET type_guard == IF c.type_guard # NoneV THEN expand_type(c.type_guard, m) ELSE NoneV
    IN  [c EXCEPT !.ret_type = expand_type(c.ret_type, m),
                  !.variables = remaining_tvars(vs, m),
                  !.type_guard = type_guard]

Finish ==
    /\ pc = "finish"
    /\ result' = returned_callable(callable, tvars, id_to_type)
    /\ pc' = "done"
    /\ UNCHANGED <<signature, orig_types, skip_unsatisfied, callable, id_to_type, index,
                   exception, reports, resolved>>

Next == CheckArity \/ LoopStep \/ ExpandParamSpec \/ ApplyArgTypes \/ Finish

Spec == Init /\ [][Next]_vars

(***************************************************************************)
(* Vocabulary of the properties.                                           *)
(***************************************************************************)
Range(s) == {s[k] : k \in 1..Len(s)}

\* The j-th smallest element of the set of positions S.
NthOf(S, j) == CHOOSE k \in S : Cardinality({i \in S : i <= k}) = j

\* The subsequence of s at the positions S, in the order of s.
SubsequenceAt(s, S) == [j \in 1..Cardinality(S) |-> s[NthOf(S, j)]]

IsPlainVariable(tvar) == isinstance(tvar, "TypeVarType")

HasValues(tvar) == IsPlainVariable(tvar) /\ tvar.values # <<>>

\* The positions of the declared values the proposed type is a subtype of.
DeclaredSupertypes(tvar, type) ==
    {k \in 1..Len(tvar.values) : is_subtype(type, tvar.values[k])}

\* The shortcut: the proposed type is Any, or a type variable with values
\* all of which are values of tvar.
AcceptedByShortcut(tvar, type) ==
    \/ type = AnyType
    \/ /\ isinstance(type, "TypeVarType")
       /\ type.values # <<>>
       /\ Range(type.values) \subseteq Range(tvar.values)

\* No declared value is a supertype of the proposed type, or it is not a
\* subtype of the upper bound.
FailsDeclaredConstraint(tvar, type) ==
    /\ IsPlainVariable(tvar)
    /\ IF tvar.values # <<>> THEN DeclaredSupertypes(tvar, type) = {}
       ELSE ~is_subtype(type, tvar.upper_bound)

\* The proposed type fails the constraint of tvar and no shortcut accepts it.
Unsatisfied(tvar, type) ==
    /\ FailsDeclaredConstraint(tvar, type)
    /\ HasValues(tvar) => ~AcceptedByShortcut(tvar, type)

\* The left-to-right fold over the matching values m: best starts as m[1],
\* a later value replaces best iff it is a subtype of best.
LeftFold(m) ==
    LET best[i \in 1..Len(m)] ==
            IF i = 1 THEN m[1]
            ELSE IF is_subtype(m[i], best[i - 1]) THEN m[i] ELSE best[i - 1]
    IN  best[Len(m)]

\* The calls of the diagnostic callback for the parameter named name.
ReportsFor(name) == {j \in 1..Len(reports) : reports[j].name = name}

\* The positions of the proposed types that are present.
Present ==
    {k \in 1..Len(orig_types) :
        orig_types[k] # NoneV /\ ~isinstance(orig_types[k], "PartialType")}

\* The positions of the proposed types that are placeholders.
Placeholders == {k \in 1..Len(orig_types) : isinstance(orig_types[k], "PartialType")}

ArityMatches == Len(signature.variables) = Len(orig_types)

RaisedPartial ==
    /\ pc = "raised"
    /\ exception.message = "Internal error: must never apply partial type"

\* The *arg argument of c has an Unpack type.
HasUnpackedStar(c) == var_arg(c) # NoneV /\ isinstance(var_arg(c).typ, "UnpackType")

(***************************************************************************)
(* C1                                                                      *)
(***************************************************************************)
\* The case of C1 for one call of the resolver.
NarrowingCase(r) ==
    /\ HasValues(r.tvar)
    /\ ~AcceptedByShortcut(r.tvar, r.type)
    /\ DeclaredSupertypes(r.tvar, r.type) # {}

\* C1: for a plain variable with values and a proposed type that is neither
\* Any nor accepted by the shortcut, when some declared value is a supertype
\* of the proposed type, the resolver returns the left-to-right fold over
\* the matching values in declaration order and the callback is not invoked;
\* values (int, float) with bool give int, and among pairwise incomparable
\* matching values the first declared wins.
C1_NarrowestByLeftFold ==
    \A n \in 1..Len(resolved) :
        LET r == resolved[n]
            matching == SubsequenceAt(r.tvar.values, DeclaredSupertypes(r.tvar, r.type))
        IN  NarrowingCase(r) =>
              /\ r.ret = LeftFold(matching)
              /\ ReportsFor(r.tvar.name) = {}
              /\ (r.tvar.values = <<Instance("int"), Instance("float")>>
                  /\ r.type = Instance("bool")) => r.ret = Instance("int")
              /\ (\A a, b \in 1..Len(matching) :
                      a # b => ~is_subtype(matching[a], matching[b]))
                  => r.ret = matching[1]

\* A later matching value replaced the first one: (float, int) with bool.
C1_Witness ==
    \E n \in 1..Len(resolved) :
        /\ NarrowingCase(resolved[n])
        /\ Cardinality(DeclaredSupertypes(resolved[n].tvar, resolved[n].type)) >= 2
        /\ resolved[n].ret #
             resolved[n].tvar.values[NthOf(DeclaredSupertypes(resolved[n].tvar,
                                                              resolved[n].type), 1)]

(***************************************************************************)
(* C2                                                                      *)
(***************************************************************************)
\* The callback was invoked exactly once for the parameter at position k,
\* with (signature, proposed type, parameter name, context), and the map
\* holds the proposed type as it was proposed.
ReportedAndSubstituted(k) ==
    LET tvar == signature.variables[k]
    IN  /\ Cardinality(ReportsFor(tvar.name)) = 1
        /\ \A j \in ReportsFor(tvar.name) :
              reports[j] = Report(signature, orig_types[k], tvar.name, context)
        /\ tvar.id \in DOMAIN id_to_type
        /\ id_to_type[tvar.id] = orig_types[k]

\* C2 as stated, on the calls that return: with skip_unsatisfied false,
\* every plain variable whose present proposed type has no declared
\* supertype value, or is not a subtype of the bound, is reported once and
\* substituted unnarrowed, and the callback is invoked once per such
\* parameter in all.
C2_AsStated ==
    (pc = "done" /\ ~skip_unsatisfied) =>
       LET failing == {k \in Present :
                          FailsDeclaredConstraint(signature.variables[k], orig_types[k])}
       IN  /\ \A k \in failing : ReportedAndSubstituted(k)
           /\ Len(reports) = Cardinality(failing)

\* C2 amended: with skip_unsatisfied false, every plain variable whose
\* present proposed type is unsatisfied (fails the constraint and is not
\* accepted by the Any or the subsumption shortcut) is, once the loop has
\* passed it, reported exactly once with (signature, proposed type, name,
\* context) and substituted unnarrowed; the callback has been invoked once
\* per such parameter passed and for no other; and an unsatisfied constraint
\* raises nothing: a call raises only for a wrong arity, a placeholder or an
\* unpacked star argument.
C2_ReportedOnceAndSubstituted ==
    (~skip_unsatisfied /\ ArityMatches) =>
       LET passed == {k \in Present : k < index}
           unsat == {k \in passed : Unsatisfied(signature.variables[k], orig_types[k])}
       IN  /\ \A k \in unsat : ReportedAndSubstituted(k)
           /\ Len(reports) = Cardinality(unsat)
           /\ \A k \in passed \ unsat : ReportsFor(signature.variables[k].name) = {}
           /\ pc = "raised" => Placeholders # {} \/ HasUnpackedStar(callable)
           /\ pc \notin {"done", "raised"} => ENABLED Next
           /\ pc = "done" => index = Len(orig_types) + 1

\* A completed call that reported two unsatisfied parameters.
C2_Witness ==
    /\ pc = "done"
    /\ ~skip_unsatisfied
    /\ Len(reports) = 2
    /\ \A k \in 1..2 : id_to_type[signature.variables[k].id] = orig_types[k]

(***************************************************************************)
(* C3                                                                      *)
(***************************************************************************)
\* C3: the resolver returns None iff skip_unsatisfied is set and the
\* parameter is a plain variable whose constraint the proposed type fails
\* (it is unsatisfied); then the callback is never invoked, the id is absent
\* from the map and the parameter is among the remaining parameters of the
\* output.  With skip_unsatisfied false the resolver never returns None.
C3_NoResolutionIffSkipped ==
    /\ \A n \in 1..Len(resolved) :
          LET r == resolved[n]
          IN  /\ r.ret = NoneV <=> (skip_unsatisfied /\ Unsatisfied(r.tvar, r.type))
              /\ r.ret = NoneV =>
                    /\ ReportsFor(r.tvar.name) = {}
                    /\ r.tvar.id \notin DOMAIN id_to_type
                    /\ pc = "done" => r.tvar \in Range(result.variables)
    /\ skip_unsatisfied => reports = <<>>
    /\ ~skip_unsatisfied => \A n \in 1..Len(resolved) : resolved[n].ret # NoneV

\* A completed call that skipped an unsatisfied parameter and applied another.
C3_Witness ==
    /\ pc = "done"
    /\ skip_unsatisfied
    /\ \E n \in 1..Len(resolved) :
          /\ resolved[n].ret = NoneV
          /\ resolved[n].tvar \in Range(result.variables)
    /\ DOMAIN id_to_type # {}

(***************************************************************************)
(* C4                                                                      *)
(***************************************************************************)
\* The positions of the declared parameters whose id the map does not hold.
Unmapped == {k \in 1..Len(signature.variables) :
                signature.variables[k].id \notin DOMAIN id_to_type}

\* C4: after a successful call the remaining parameters of the output are
\* the declared parameters whose id is absent from the map, unmodified and
\* in declaration order; every declared parameter is a key of the map or
\* remaining, never both; a parameter remains exactly when its proposed type
\* was absent or the resolver returned None for it.
C4_RemainingParameters ==
    pc = "done" =>
       /\ result.variables = SubsequenceAt(signature.variables, Unmapped)
       /\ \A k \in 1..Len(signature.variables) :
             LET tvar == signature.variables[k]
             IN  /\ (tvar.id \in DOMAIN id_to_type) # (tvar \in Range(result.variables))
                 /\ tvar \in Range(result.variables) <=>
                       \/ orig_types[k] = NoneV
                       \/ \E n \in 1..Len(resolved) :
                             resolved[n].index = k /\ resolved[n].ret = NoneV

\* A completed call whose first parameter had no proposed type and remains,
\* the second one being applied.
C4_Witness ==
    /\ pc = "done"
    /\ Len(orig_types) = 2
    /\ orig_types[1] = NoneV
    /\ DOMAIN id_to_type = {signature.variables[2].id}
    /\ result.variables = <<signature.variables[1]>>

(***************************************************************************)
(* C5                                                                      *)
(***************************************************************************)
\* No free parameter, or no proposed type at all.
NothingToApply ==
    /\ ArityMatches
    /\ \A k \in 1..Len(orig_types) : orig_types[k] = NoneV

\* The output has the argument list, the return type, the predicate type and
\* the parameter list of the input.
OutputIsInput ==
    /\ result.arg_types = signature.arg_types
    /\ result.arg_kinds = signature.arg_kinds
    /\ result.arg_names = signature.arg_names
    /\ result.ret_type = signature.ret_type
    /\ result.type_guard = signature.type_guard
    /\ result.variables = signature.variables

\* C5 as stated: applying a signature with no free parameter, or any
\* signature with no proposed type, returns the input, for every shape of
\* star argument, an Unpack of a fixed tuple included.
C5_AsStated == (pc = "done" /\ NothingToApply) => OutputIsInput

\* The star argument of the input is *args: *tuple[...] with no Unpack item.
StarIsFixedTuple ==
    /\ HasUnpackedStar(signature)
    /\ isinstance(var_arg(signature).typ.type, "TupleType")
    /\ find_unpack_in_list(var_arg(signature).typ.type.items) = 0

\* C5 amended: applying a signature with no free parameter, or any signature
\* with no proposed type, returns the input whenever the star argument, if
\* any, has no Unpack type.  A star argument that is an Unpack of a fixed
\* tuple is replaced by one positional argument per item of the tuple, the
\* rest of the signature being the input's.
C5_NoOpWithoutUnpackedStar ==
    NothingToApply =>
       /\ ~HasUnpackedStar(signature) =>
             /\ pc # "raised"
             /\ pc = "done" => OutputIsInput
       /\ StarIsFixedTuple =>
             /\ pc # "raised"
             /\ pc = "done" =>
                   LET star == var_arg(signature).pos
                       items == var_arg(signature).typ.type.items
                       n == Len(signature.arg_types)
                   IN  /\ result.arg_types =
                             SubSeq(signature.arg_types, 1, star - 1) \o items
                             \o SubSeq(signature.arg_types, star + 1, n)
                       /\ "ARG_STAR" \notin Range(result.arg_kinds)
                       /\ result.ret_type = signature.ret_type
                       /\ result.type_guard = signature.type_guard
                       /\ result.variables = signature.variables

\* A completed call with nothing to apply on a signature with a star
\* argument, a predicate type and free parameters.
C5_Witness ==
    /\ pc = "done"
    /\ NothingToApply
    /\ var_arg(signature) # NoneV
    /\ ~HasUnpackedStar(signature)
    /\ signature.type_guard # NoneV
    /\ signature.variables # <<>>
    /\ OutputIsInput

(***************************************************************************)
(* C6                                                                      *)
(***************************************************************************)
\* The star argument of the input is *args: *Ts and the map binds Ts to a
\* fixed tuple none of whose items is an Unpack.
StarBoundToFixedTuple ==
    /\ HasUnpackedStar(signature)
    /\ isinstance(var_arg(signature).typ.type, "TypeVarTupleType")
    /\ var_arg(signature).typ.type.id \in DOMAIN id_to_type
    /\ isinstance(id_to_type[var_arg(signature).typ.type.id], "TupleType")
    /\ find_unpack_in_list(id_to_type[var_arg(signature).typ.type.id].items) = 0

\* C6: when the star argument is an Unpack of a TypeVarTuple that the map
\* binds to a fixed tuple of k types, none an Unpack, the output has the
\* star slot replaced by those k arguments in order, the arguments before
\* and after it in their order with their types substituted through the
\* map, and as many arguments as the input has beside the star, plus k.
C6_StarReplacedByTupleItems ==
    StarBoundToFixedTuple =>
       LET star == var_arg(signature).pos
           items == id_to_type[var_arg(signature).typ.type.id].items
           k == Len(items)
           n == Len(signature.arg_types)
       IN  /\ pc = "raised" => RaisedPartial
           /\ pc = "done" =>
                 /\ Len(result.arg_types) = n - 1 + k
                 /\ Len(result.arg_kinds) = n - 1 + k
                 /\ \A j \in 1..(star - 1) :
                       /\ result.arg_types[j] = expand_type(signature.arg_types[j], id_to_type)
                       /\ result.arg_kinds[j] = signature.arg_kinds[j]
                 /\ \A j \in 1..k :
                       /\ result.arg_types[star - 1 + j] = items[j]
                       /\ result.arg_kinds[star - 1 + j] = "ARG_POS"
                 /\ \A j \in (star + 1)..n :
                       /\ result.arg_types[j - 1 + k] =
                             expand_type(signature.arg_types[j], id_to_type)
                       /\ result.arg_kinds[j - 1 + k] = signature.arg_kinds[j]

\* A completed call with Ts bound to (int, str) and a type variable applied
\* in the arguments before and after the star.
C6_Witness ==
    /\ pc = "done"
    /\ StarBoundToFixedTuple
    /\ id_to_type[var_arg(signature).typ.type.id] =
          TupleType(<<Instance("int"), Instance("str")>>)
    /\ signature.arg_types[Len(signature.arg_types)] # result.arg_types[Len(result.arg_types)]
    /\ Len(result.arg_types) = Len(signature.arg_types) + 1

(***************************************************************************)
(* C7                                                                      *)
(***************************************************************************)
\* The loop over the parameters has ended: the map is final.
MapIsFinal == pc \in {"args", "finish", "done"}

\* The signature declares a ParamSpec and the map gives a callable or a bare
\* parameter list for its id.
ParamSpecSupplied ==
    /\ param_spec(signature) # NoneV
    /\ param_spec(signature).id \in DOMAIN id_to_type
    /\ id_to_type[param_spec(signature).id].tag \in {"CallableType", "Parameters"}

\* C7: if the signature declares a ParamSpec and the map supplies a callable
\* or a bare parameter list for its id, the parameters of that value are
\* spliced in at the place of the ParamSpec with their kinds, before any
\* other substitution of the arguments: the detection of the star argument
\* and the substitution through the map work on the expanded list.  If the
\* value has another shape, or is absent, nothing is spliced and the
\* arguments are substituted one by one.
C7_ParamSpecSplicedFirst ==
    (MapIsFinal /\ param_spec(signature) # NoneV) =>
       LET n == Len(signature.arg_types)
           supplied == id_to_type[param_spec(signature).id]
           types == SubSeq(signature.arg_types, 1, n - 2) \o supplied.arg_types
           kinds == SubSeq(signature.arg_kinds, 1, n - 2) \o supplied.arg_kinds
           stars == {j \in 1..Len(kinds) : kinds[j] = "ARG_STAR"}
           unpacked == {j \in stars : isinstance(types[j], "UnpackType")}
       IN  IF ParamSpecSupplied THEN
               /\ pc = "args" =>
                     /\ callable.arg_types = types
                     /\ callable.arg_kinds = kinds
               /\ (pc = "done" /\ unpacked = {}) =>
                     /\ result.arg_kinds = kinds
                     /\ Len(result.arg_types) = Len(types)
                     /\ \A j \in 1..Len(types) :
                           result.arg_types[j] = expand_type(types[j], id_to_type)
               /\ (pc = "done" /\ unpacked # {}) =>
                     \A j \in unpacked :
                        LET items == expand_type(types[j].type, id_to_type).items
                        IN  /\ "ARG_STAR" \notin Range(result.arg_kinds)
                            /\ SubSeq(result.arg_types, j, j + Len(items) - 1) = items
                            /\ \A i \in 1..(j - 1) :
                                  result.arg_types[i] = expand_type(types[i], id_to_type)
           ELSE
               /\ pc = "args" => callable = signature
               /\ pc = "done" =>
                     /\ result.arg_kinds = signature.arg_kinds
                     /\ Len(result.arg_types) = n
                     /\ \A j \in 1..n :
                           result.arg_types[j] =
                              expand_type(signature.arg_types[j], id_to_type)

\* A completed call with a callable supplied for the ParamSpec: its optional
\* parameter keeps its kind and its type is substituted after the splice.
C7_Witness ==
    /\ pc = "done"
    /\ ParamSpecSupplied
    /\ id_to_type[param_spec(signature).id].tag = "CallableType"
    /\ result.arg_kinds[Len(result.arg_kinds)] = "ARG_OPT"
    /\ result.arg_types[Len(result.arg_types)] #
          id_to_type[param_spec(signature).id].arg_types[2]

(***************************************************************************)
(* C8                                                                      *)
(***************************************************************************)
\* C8: whenever the list of proposed types is not as long as the list of
\* declared parameters the call raises, whatever the list holds and whatever
\* skip_unsatisfied is: no signature is returned, the resolver is never
\* consulted and the callback never invoked.
C8_ArityMismatchRaises ==
    ~ArityMatches =>
       /\ pc \in {"start", "raised"}
       /\ pc = "raised" => exception.tag = "AssertionError"
       /\ result = NoneV
       /\ resolved = <<>>
       /\ reports = <<>>
       /\ id_to_type = EmptyMap

\* A call with more types than parameters, one of them a proposed type, has
\* raised.
C8_Witness ==
    /\ pc = "raised"
    /\ Len(orig_types) > Len(signature.variables)
    /\ signature.variables # <<>>
    /\ Present # {}

(***************************************************************************)
(* C9                                                                      *)
(***************************************************************************)
\* Some parameter declared before the first placeholder has a present
\* proposed type that is unsatisfied, and skip_unsatisfied is false.
UnsatisfiedBeforePlaceholder ==
    /\ ~skip_unsatisfied
    /\ \E k \in Present :
          /\ \A j \in Placeholders : k < j
          /\ Unsatisfied(signature.variables[k], orig_types[k])

\* C9 as stated, for a placeholder declared after a parameter whose
\* constraint is unsatisfied: the call raises without having consulted the
\* resolver or invoked the callback for any parameter.
C9_AsStated ==
    (RaisedPartial /\ UnsatisfiedBeforePlaceholder) => (resolved = <<>> /\ reports = <<>>)

\* The position of the first placeholder.
FirstPlaceholder == CHOOSE k \in Placeholders : \A j \in Placeholders : k <= j

\* C9 amended: the placeholder check is made parameter by parameter, in the
\* loop that builds the map.  If a proposed type is a placeholder the call
\* raises when the loop reaches the first one: the resolver is not consulted
\* and the callback not invoked for that parameter nor for a later one, no
\* signature is returned, and the parameters declared before it whose
\* proposed type is present have been resolved, and reported if unsatisfied
\* and not skipped.
C9_PlaceholderStopsLoop ==
    (ArityMatches /\ Placeholders # {}) =>
       LET before == {k \in Present : k < FirstPlaceholder}
           unsat == {k \in before : Unsatisfied(signature.variables[k], orig_types[k])}
       IN  /\ pc \in {"start", "loop", "raised"}
           /\ index <= FirstPlaceholder
           /\ result = NoneV
           /\ \A n \in 1..Len(resolved) : resolved[n].index \in before
           /\ \A j \in 1..Len(reports) :
                 \E k \in unsat : reports[j].name = signature.variables[k].name
           /\ pc = "raised" =>
                 /\ RaisedPartial
                 /\ index = FirstPlaceholder
                 /\ {resolved[n].index : n \in 1..Len(resolved)} = before
                 /\ Len(reports) = IF skip_unsatisfied THEN 0 ELSE Cardinality(unsat)

\* The call raised at a placeholder after the callback was invoked for an
\* earlier parameter.
C9_Witness == RaisedPartial /\ reports # <<>>

(***************************************************************************)
(* C10                                                                     *)
(***************************************************************************)
IsConstrainedVariable(type) == isinstance(type, "TypeVarType") /\ type.values # <<>>

\* C10: for a plain variable with values the resolver returns the proposed
\* type itself, without invoking the callback, when it is Any or a type
\* variable with values each of which is the same type as a value of the
\* parameter; a type variable with values that is not so subsumed goes
\* through the matching and the unsatisfied policy.  The result for a plain
\* variable is always the proposed type, a declared value the proposed type
\* is a subtype of, or None.
C10_ShortcutReturnsProposedType ==
    \A n \in 1..Len(resolved) :
        LET r == resolved[n]
            supertypes == {r.tvar.values[k] : k \in DeclaredSupertypes(r.tvar, r.type)}
        IN  /\ (HasValues(r.tvar) /\ AcceptedByShortcut(r.tvar, r.type)) =>
                  /\ r.ret = r.type
                  /\ ReportsFor(r.tvar.name) = {}
            /\ (/\ HasValues(r.tvar)
                /\ IsConstrainedVariable(r.type)
                /\ ~AcceptedByShortcut(r.tvar, r.type)) =>
                  IF supertypes # {} THEN r.ret \in supertypes /\ ReportsFor(r.tvar.name) = {}
                  ELSE IF skip_unsatisfied THEN r.ret = NoneV /\ ReportsFor(r.tvar.name) = {}
                  ELSE r.ret = r.type /\ ReportsFor(r.tvar.name) # {}
            /\ IsPlainVariable(r.tvar) =>
                  r.ret = r.type \/ r.ret = NoneV \/ r.ret \in supertypes

\* The shortcut accepted a type variable with values that is a subtype of no
\* declared value.
C10_Witness ==
    \E n \in 1..Len(resolved) :
        /\ HasValues(resolved[n].tvar)
        /\ IsConstrainedVariable(resolved[n].type)
        /\ AcceptedByShortcut(resolved[n].tvar, resolved[n].type)
        /\ DeclaredSupertypes(resolved[n].tvar, resolved[n].type) = {}
        /\ resolved[n].ret = resolved[n].type

====
